---- MODULE Spec2Model ----
(***************************************************************************)
(* Ring buffer of packet descriptors (src/ring_buffer.c).                  *)
(*                                                                         *)
(* Two specifications share one set of variables:                          *)
(*   Spec      every call of ring_init, ring_enqueue, ring_dequeue,        *)
(*             ring_peek and ring_enqueue_bulk is one step (calls made one *)
(*             after the other);                                           *)
(*   SpecConc  one producer and one consumer, each call split into the     *)
(*             accesses it makes to the other side's index and to the      *)
(*             slots, interleaved freely.                                  *)
(*                                                                         *)
(* uint32_t values are represented by the integer of the range             *)
(* -2^31 .. 2^31-1 that is congruent to them modulo 2^32 (their two's      *)
(* complement reading): 0xFFFFFFFF is -1, and head - tail with head < tail *)
(* is the negative difference.  Every value of the bounded model stays far *)
(* inside that range, so + and - need no further reduction; the bitwise    *)
(* AND and the unsigned comparison are computed on this representation.    *)
(***************************************************************************)
EXTENDS Integers, Sequences, FiniteSets, TLC

\* ---------------------------------------------------------------- bounds
MaxSize == 4        \* ring_init is called with a size in 0..MaxSize
MaxOps  == 5        \* at most MaxOps descriptors accepted / returned in a run
MaxBulk == 3        \* ring_enqueue_bulk is called with 0..MaxBulk descriptors

\* ----------------------------------------------------- packet_desc_t
DescFields == {"data", "paddr", "len", "flags", "timestamp"}

\* The descriptor of example_tx_processing and a second one that differs
\* from it in every field.
DescTx == [data |-> 0, paddr |-> 305418240, len |-> 1500, flags |-> 1,
           timestamp |-> 0]
DescRx == [data |-> 4096, paddr |-> 8192, len |-> 64, flags |-> 2,
           timestamp |-> 99]
Descs == {DescTx, DescRx}

\* Indeterminate bytes: the content of storage fresh from malloc, of a slot
\* whose memcpy is under way, of memory outside the allocation.  No field of
\* a real descriptor is negative.
Garbage == [f \in DescFields |-> -1]
AnyDesc == Descs \cup {Garbage}

NULL == -1

\* ------------------------------------------------- uint32_t arithmetic
RECURSIVE And32(_, _)
\* a & b on the two's complement representation.
And32(a, b) ==
    IF a = 0 \/ b = 0 THEN 0
    ELSE IF a = -1 THEN b
    ELSE IF b = -1 THEN a
    ELSE (a % 2) * (b % 2) + 2 * And32(a \div 2, b \div 2)

\* a < b as uint32_t values.
ULt(a, b) ==
    \/ a >= 0 /\ b < 0
    \/ a >= 0 /\ b >= 0 /\ a < b
    \/ a < 0 /\ b < 0 /\ a < b

IsPow2(n) == n \in {1, 2, 4, 8, 16, 32, 64, 128, 256}

\* Copies short of the last field: the timestamp keeps the destination's
\* zero.
memcpy_short(src) ==
    [f \in DescFields |-> IF f = "timestamp" THEN 0 ELSE src[f]]

\* memcpy(dst, src, sizeof(packet_desc_t)): every field of the record.
memcpy(src) == [f \in DescFields |-> src[f]]

\* ------------------------------------------------------------- state
VARIABLES
    constructed,   \* ring_init has run
    buffer,        \* ring->buffer: slot index -> content
    head,          \* ring->head
    tail,          \* ring->tail
    mask,          \* ring->mask
    size,          \* ring->size
    out,           \* the caller's *desc of ring_dequeue
    pret,          \* what the producer's last call returned
    cret,          \* what the consumer's last call returned
    accepted,      \* history: descriptors the producer's calls accepted
    returned,      \* history: descriptors successful dequeues returned
    oob,           \* some slot index used fell outside 0 .. size-1
    ppc, plocal,   \* SpecConc: producer's position and locals
    cpc, clocal    \* SpecConc: consumer's position and locals

ringv == <<buffer, head, tail, mask, size>>
histv == <<accepted, returned>>
concv == <<ppc, plocal, cpc, clocal>>
vars  == <<constructed, buffer, head, tail, mask, size, out, pret, cret,
           accepted, returned, oob, ppc, plocal, cpc, clocal>>

NoRet == [op |-> "none", ok |-> FALSE, n |-> 0, ptr |-> NULL, descs |-> <<>>]
PIdle == [desc |-> Garbage, descs |-> <<>>, head |-> 0, n |-> 0, i |-> 0]
CIdle == [tail |-> 0, seen |-> Garbage]

\* ring_buffer_t before ring_init: no storage, no indices.
Init ==
    /\ constructed = FALSE
    /\ buffer = <<>>
    /\ head = 0 /\ tail = 0 /\ mask = 0 /\ size = 0
    /\ out = Garbage
    /\ pret = NoRet /\ cret = NoRet
    /\ accepted = <<>> /\ returned = <<>>
    /\ oob = FALSE
    /\ ppc = "idle" /\ plocal = PIdle
    /\ cpc = "idle" /\ clocal = CIdle

\* The ring can be called: ring_init has run, and no access has left the
\* allocation.  An access outside buffer[0 .. size-1] is undefined behaviour;
\* the step that makes it is taken, with indeterminate content read, and the
\* run is followed no further.
Usable == constructed /\ ~oob

\* Full reported one descriptor early.
ring_full_early(h, t, m) == And32(h - t + 1, m) = m

\* ---------------------------------------------------------- queries
\* Compares with the size where the code compares with the mask.
ring_full_size(h, t, m) == And32(h - t, m) = m + 1

\* The head alone compared, the tail left out.
ring_full_head(h, t, m) == And32(h, m) = m

ring_full(h, t, m) == And32(h - t, m) = m

\* The comparison inverted.
ring_empty_inverted(h, t) == h # t

ring_empty(h, t) == h = t

\* The space counted without the slot that is kept free.
ring_space_plus_one(sz, h, t, m) == sz - And32(h - t, m)

\* The difference of the indices left unmasked.
ring_space_unmasked(sz, h, t, m) == sz - (h - t) - 1

ring_space(sz, h, t, m) == sz - And32(h - t, m) - 1

\* The index kept modulo twice the capacity.
NextIndex_double(i, n, m) == And32(i + n, 2 * m + 1)

\* The sum stored back without the mask.
NextIndex_unmasked(i, n, m) == i + n

\* (index + n) & ring->mask, the value stored back into head or tail.
NextIndex(i, n, m) == And32(i + n, m)

\* ------------------------------------------------------ slot accesses
InBounds(b, i) == i \in DOMAIN b

\* buffer[i] = d; a write outside the allocation leaves the slots alone.
Store(b, i, d) == IF InBounds(b, i) THEN [b EXCEPT ![i] = d] ELSE b

\* The values a read of buffer[i] can yield.
ReadSlot(b, i) ==
    IF InBounds(b, i) /\ b[i] \in Descs THEN {b[i]} ELSE AnyDesc

\* ------------------------------------------------------------ ring_init
\* The mask set to the size.
ring_init_mask(sz) ==
    /\ ~constructed
    /\ constructed' = TRUE
    /\ buffer' = [i \in 0 .. sz - 1 |-> Garbage]
    /\ head' = 0
    /\ tail' = 0
    /\ size' = sz
    /\ mask' = sz
    /\ UNCHANGED <<out, pret, cret, histv, oob, concv>>

ring_init(sz) ==
    /\ ~constructed
    /\ constructed' = TRUE
    /\ buffer' = [i \in 0 .. sz - 1 |-> Garbage]
    /\ head' = 0
    /\ tail' = 0
    /\ size' = sz
    /\ mask' = sz - 1
    /\ UNCHANGED <<out, pret, cret, histv, oob, concv>>

\* --------------------------------------------------------- ring_enqueue
\* The descriptor copied into the slot before the full check.
ring_enqueue_copy_first(desc) ==
    /\ Usable
    /\ Len(accepted) < MaxOps
    /\ buffer' = Store(buffer, head, memcpy(desc))
    /\ oob' = (oob \/ ~InBounds(buffer, head))
    /\ IF ring_full(head, tail, mask)
       THEN /\ pret' = [NoRet EXCEPT !.op = "enqueue", !.descs = <<desc>>]
            /\ UNCHANGED <<head, tail, mask, size, accepted>>
       ELSE /\ head' = NextIndex(head, 1, mask)
            /\ accepted' = Append(accepted, desc)
            /\ pret' = [NoRet EXCEPT !.op = "enqueue", !.ok = TRUE, !.n = 1,
                                     !.descs = <<desc>>]
            /\ UNCHANGED <<tail, mask, size>>
    /\ UNCHANGED <<constructed, out, cret, returned, concv>>

ring_enqueue(desc) ==
    /\ Usable
    /\ Len(accepted) < MaxOps
    /\ IF ring_full(head, tail, mask)
       THEN /\ pret' = [NoRet EXCEPT !.op = "enqueue", !.descs = <<desc>>]
            /\ UNCHANGED <<ringv, accepted, oob>>
       ELSE /\ buffer' = Store(buffer, head, memcpy(desc))
            /\ oob' = (oob \/ ~InBounds(buffer, head))
            /\ head' = NextIndex(head, 1, mask)
            /\ accepted' = Append(accepted, desc)
            /\ pret' = [NoRet EXCEPT !.op = "enqueue", !.ok = TRUE, !.n = 1,
                                     !.descs = <<desc>>]
            /\ UNCHANGED <<tail, mask, size>>
    /\ UNCHANGED <<constructed, out, cret, returned, concv>>

\* --------------------------------------------------------- ring_dequeue
\* Both indices set back to 0 by the dequeue that empties the ring.
ring_dequeue_reset ==
    /\ Usable
    /\ Len(returned) < MaxOps
    /\ IF ring_empty(head, tail)
       THEN /\ cret' = [NoRet EXCEPT !.op = "dequeue"]
            /\ UNCHANGED <<ringv, out, returned, oob>>
       ELSE /\ \E v \in ReadSlot(buffer, tail) : out' = memcpy(v)
            /\ oob' = (oob \/ ~InBounds(buffer, tail))
            /\ IF NextIndex(tail, 1, mask) = head
               THEN head' = 0 /\ tail' = 0
               ELSE head' = head /\ tail' = NextIndex(tail, 1, mask)
            /\ returned' = Append(returned, out')
            /\ cret' = [NoRet EXCEPT !.op = "dequeue", !.ok = TRUE, !.n = 1]
            /\ UNCHANGED <<buffer, mask, size>>
    /\ UNCHANGED <<constructed, pret, accepted, concv>>

ring_dequeue ==
    /\ Usable
    /\ Len(returned) < MaxOps
    /\ IF ring_empty(head, tail)
       THEN /\ cret' = [NoRet EXCEPT !.op = "dequeue"]
            /\ UNCHANGED <<ringv, out, returned, oob>>
       ELSE /\ \E v \in ReadSlot(buffer, tail) : out' = memcpy(v)
            /\ oob' = (oob \/ ~InBounds(buffer, tail))
            /\ tail' = NextIndex(tail, 1, mask)
            /\ returned' = Append(returned, out')
            /\ cret' = [NoRet EXCEPT !.op = "dequeue", !.ok = TRUE, !.n = 1]
            /\ UNCHANGED <<buffer, head, mask, size>>
    /\ UNCHANGED <<constructed, pret, accepted, concv>>

\* ------------------------------------------------------------ ring_peek
\* The address of the producer's slot returned.
ring_peek_head ==
    /\ Usable
    /\ IF ring_empty(head, tail)
       THEN cret' = [NoRet EXCEPT !.op = "peek"]
       ELSE cret' = [NoRet EXCEPT !.op = "peek", !.ok = TRUE, !.ptr = head]
    /\ oob' = (oob \/ (~ring_empty(head, tail) /\ ~InBounds(buffer, head)))
    /\ UNCHANGED <<constructed, ringv, out, pret, histv, concv>>

ring_peek ==
    /\ Usable
    /\ IF ring_empty(head, tail)
       THEN cret' = [NoRet EXCEPT !.op = "peek"]
       ELSE cret' = [NoRet EXCEPT !.op = "peek", !.ok = TRUE, !.ptr = tail]
    /\ oob' = (oob \/ (~ring_empty(head, tail) /\ ~InBounds(buffer, tail)))
    /\ UNCHANGED <<constructed, ringv, out, pret, histv, concv>>

\* ---------------------------------------------------- ring_enqueue_bulk
\* The whole batch taken whatever the space.
BulkN_all(count, space) == count

\* n = (count < space) ? count : space
BulkN(count, space) == IF ULt(count, space) THEN count ELSE space

\* The slot index of the loop left unmasked.
BulkIndex_unmasked(h, i, m) == h + i

\* (head + i) & ring->mask, the slot descs[i] goes to.
BulkIndex(h, i, m) == And32(h + i, m)

RECURSIVE BulkStore(_, _, _, _, _, _)
\* for (i = 0; i < n; i++) buffer[(head + i) & mask] = descs[i], from i on.
BulkStore(b, h, m, descs, i, n) ==
    IF i >= n THEN b
    ELSE BulkStore(Store(b, BulkIndex(h, i, m), memcpy(descs[i + 1])),
                   h, m, descs, i + 1, n)

BulkInBounds(b, h, m, n) ==
    \A i \in 0 .. n - 1 : InBounds(b, BulkIndex(h, i, m))

ring_enqueue_bulk(descs) ==
    LET count == Len(descs)
        space == ring_space(size, head, tail, mask)
        n     == BulkN(count, space)
    IN  /\ Usable
        /\ Len(accepted) + count <= MaxOps
        /\ IF n = 0
           THEN /\ pret' = [NoRet EXCEPT !.op = "enqueue_bulk",
                                         !.descs = descs]
                /\ UNCHANGED <<ringv, accepted, oob>>
           ELSE /\ buffer' = BulkStore(buffer, head, mask, descs, 0, n)
                /\ oob' = (oob \/ ~BulkInBounds(buffer, head, mask, n))
                /\ head' = NextIndex(head, n, mask)
                /\ accepted' = accepted \o SubSeq(descs, 1, n)
                /\ pret' = [NoRet EXCEPT !.op = "enqueue_bulk", !.ok = TRUE,
                                         !.n = n, !.descs = descs]
                /\ UNCHANGED <<tail, mask, size>>
        /\ UNCHANGED <<constructed, out, cret, returned, concv>>

\* The arrays a caller passes to ring_enqueue_bulk.
BulkInputs == UNION {[1 .. k -> Descs] : k \in 0 .. MaxBulk}

\* ------------------------------------------------------ specifications
\* example_tx_processing: ring_init(&tx_ring, RING_SIZE).
RING_SIZE == 256
Sizes == (0 .. MaxSize) \cup {RING_SIZE}

Next ==
    \/ \E sz \in Sizes : ring_init(sz)
    \/ \E d \in Descs : ring_enqueue(d)
    \/ ring_dequeue
    \/ ring_peek
    \/ \E ds \in BulkInputs : ring_enqueue_bulk(ds)

Spec == Init /\ [][Next]_vars

\* ------------------------------------------------- producer, step by step
\* A call is split where it touches what the other side also touches: the
\* read of the other side's index, the write of a slot (its start and its
\* completion), the store to its own index.  The reads of the caller's own
\* index (lines 71, 90, 118) are joined to the step before them, no one else
\* writes that index.  The steps of a call follow in program order: the
\* indices are volatile and __sync_synchronize() stands before each store to
\* an index.  pret records the value a call returns; the caller's array is
\* followed in Spec, where the whole call is one step.

\* The head stored before the descriptor is copied.
P_enqueue_call_publish_first(desc) ==
    /\ Usable /\ ppc = "idle"
    /\ Len(accepted) < MaxOps
    /\ IF ring_full(head, tail, mask)
       THEN /\ pret' = [NoRet EXCEPT !.op = "enqueue"]
            /\ UNCHANGED <<ppc, plocal, head>>
       ELSE /\ plocal' = [PIdle EXCEPT !.desc = desc, !.head = head]
            /\ head' = NextIndex(head, 1, mask)
            /\ ppc' = "enq_copy"
            /\ UNCHANGED pret
    /\ UNCHANGED <<constructed, buffer, tail, mask, size, out, cret, histv,
                   oob, cpc, clocal>>

\* The call waits for space where the code returns false.
P_enqueue_call_wait(desc) ==
    /\ Usable /\ ppc = "idle"
    /\ Len(accepted) < MaxOps
    /\ plocal' = [PIdle EXCEPT !.desc = desc, !.head = head]
    /\ ppc' = IF ring_full(head, tail, mask) THEN "enq_wait" ELSE "enq_copy"
    /\ UNCHANGED <<constructed, ringv, out, pret, cret, histv, oob, cpc,
                   clocal>>

\* ring_enqueue, lines 66-71: the full check and the read of head.
P_enqueue_call(desc) ==
    /\ Usable /\ ppc = "idle"
    /\ Len(accepted) < MaxOps
    /\ IF ring_full(head, tail, mask)
       THEN /\ pret' = [NoRet EXCEPT !.op = "enqueue"]
            /\ UNCHANGED <<ppc, plocal>>
       ELSE /\ plocal' = [PIdle EXCEPT !.desc = desc, !.head = head]
            /\ ppc' = "enq_copy"
            /\ UNCHANGED pret
    /\ UNCHANGED <<constructed, ringv, out, cret, histv, oob, cpc, clocal>>

\* ring_enqueue, line 72: the memcpy into buffer[head] begins.
P_enqueue_copy ==
    /\ Usable /\ ppc = "enq_copy"
    /\ buffer' = Store(buffer, plocal.head, Garbage)
    /\ oob' = (oob \/ ~InBounds(buffer, plocal.head))
    /\ ppc' = "enq_fill"
    /\ UNCHANGED <<constructed, head, tail, mask, size, out, pret, cret,
                   histv, plocal, cpc, clocal>>

\* ring_enqueue, lines 72-75: the memcpy completes.
P_enqueue_fill ==
    /\ Usable /\ ppc = "enq_fill"
    /\ buffer' = Store(buffer, plocal.head, memcpy(plocal.desc))
    /\ ppc' = "enq_publish"
    /\ UNCHANGED <<constructed, head, tail, mask, size, out, pret, cret,
                   histv, oob, plocal, cpc, clocal>>

\* ring_enqueue, lines 77-78: the store to head and the return.
P_enqueue_publish ==
    /\ Usable /\ ppc = "enq_publish"
    /\ head' = NextIndex(plocal.head, 1, mask)
    /\ accepted' = Append(accepted, plocal.desc)
    /\ pret' = [NoRet EXCEPT !.op = "enqueue", !.ok = TRUE, !.n = 1]
    /\ ppc' = "idle" /\ plocal' = PIdle
    /\ UNCHANGED <<constructed, buffer, tail, mask, size, out, cret,
                   returned, oob, cpc, clocal>>

\* ring_enqueue_bulk, lines 112-118: the space, n and the read of head.
P_bulk_call(descs) ==
    LET count == Len(descs)
        space == ring_space(size, head, tail, mask)
        n     == BulkN(count, space)
    IN  /\ Usable /\ ppc = "idle"
        /\ Len(accepted) + count <= MaxOps
        /\ IF n = 0
           THEN /\ pret' = [NoRet EXCEPT !.op = "enqueue_bulk"]
                /\ UNCHANGED <<ppc, plocal>>
           ELSE /\ plocal' = [PIdle EXCEPT !.descs = descs, !.head = head,
                                           !.n = n]
                /\ ppc' = "bulk_copy"
                /\ UNCHANGED pret
        /\ UNCHANGED <<constructed, ringv, out, cret, histv, oob, cpc,
                       clocal>>

\* ring_enqueue_bulk, lines 119-120: the memcpy of descs[i] begins.
P_bulk_copy ==
    /\ Usable /\ ppc = "bulk_copy"
    /\ buffer' = Store(buffer, BulkIndex(plocal.head, plocal.i, mask), Garbage)
    /\ oob' = (oob \/ ~InBounds(buffer, BulkIndex(plocal.head, plocal.i, mask)))
    /\ ppc' = "bulk_fill"
    /\ UNCHANGED <<constructed, head, tail, mask, size, out, pret, cret,
                   histv, plocal, cpc, clocal>>

\* The head stored after every descriptor of the batch.
P_bulk_fill_publish_each ==
    /\ Usable /\ ppc = "bulk_fill"
    /\ buffer' = Store(buffer, BulkIndex(plocal.head, plocal.i, mask),
                       memcpy(plocal.descs[plocal.i + 1]))
    /\ head' = NextIndex(plocal.head, plocal.i + 1, mask)
    /\ plocal' = [plocal EXCEPT !.i = plocal.i + 1]
    /\ ppc' = IF plocal.i + 1 < plocal.n THEN "bulk_copy" ELSE "bulk_publish"
    /\ UNCHANGED <<constructed, tail, mask, size, out, pret, cret,
                   histv, oob, cpc, clocal>>

\* ring_enqueue_bulk, lines 119-121: the memcpy of descs[i] completes, i++.
P_bulk_fill ==
    /\ Usable /\ ppc = "bulk_fill"
    /\ buffer' = Store(buffer, BulkIndex(plocal.head, plocal.i, mask),
                       memcpy(plocal.descs[plocal.i + 1]))
    /\ plocal' = [plocal EXCEPT !.i = plocal.i + 1]
    /\ ppc' = IF plocal.i + 1 < plocal.n THEN "bulk_copy" ELSE "bulk_publish"
    /\ UNCHANGED <<constructed, head, tail, mask, size, out, pret, cret,
                   histv, oob, cpc, clocal>>

\* ring_enqueue_bulk, lines 123-126: the store to head and the return.
P_bulk_publish ==
    /\ Usable /\ ppc = "bulk_publish"
    /\ head' = NextIndex(plocal.head, plocal.n, mask)
    /\ accepted' = accepted \o SubSeq(plocal.descs, 1, plocal.n)
    /\ pret' = [NoRet EXCEPT !.op = "enqueue_bulk", !.ok = TRUE,
                             !.n = plocal.n]
    /\ ppc' = "idle" /\ plocal' = PIdle
    /\ UNCHANGED <<constructed, buffer, tail, mask, size, out, cret,
                   returned, oob, cpc, clocal>>

\* ------------------------------------------------- consumer, step by step
\* The tail stored before the slot is copied out.
C_dequeue_call_publish_first ==
    /\ Usable /\ cpc = "idle"
    /\ Len(returned) < MaxOps
    /\ IF ring_empty(head, tail)
       THEN /\ cret' = [NoRet EXCEPT !.op = "dequeue"]
            /\ UNCHANGED <<cpc, clocal, tail>>
       ELSE /\ clocal' = [CIdle EXCEPT !.tail = tail]
            /\ tail' = NextIndex(tail, 1, mask)
            /\ cpc' = "deq_copy"
            /\ UNCHANGED cret
    /\ UNCHANGED <<constructed, buffer, head, mask, size, out, pret, histv,
                   oob, ppc, plocal>>

\* ring_dequeue, lines 85-90: the empty check and the read of tail.
C_dequeue_call ==
    /\ Usable /\ cpc = "idle"
    /\ Len(returned) < MaxOps
    /\ IF ring_empty(head, tail)
       THEN /\ cret' = [NoRet EXCEPT !.op = "dequeue"]
            /\ UNCHANGED <<cpc, clocal>>
       ELSE /\ clocal' = [CIdle EXCEPT !.tail = tail]
            /\ cpc' = "deq_copy"
            /\ UNCHANGED cret
    /\ UNCHANGED <<constructed, ringv, out, pret, histv, oob, ppc, plocal>>

\* ring_dequeue, line 91: the memcpy out of buffer[tail] begins.
C_dequeue_copy ==
    /\ Usable /\ cpc = "deq_copy"
    /\ \E v \in ReadSlot(buffer, clocal.tail) :
           clocal' = [clocal EXCEPT !.seen = v]
    /\ oob' = (oob \/ ~InBounds(buffer, clocal.tail))
    /\ cpc' = "deq_fill"
    /\ UNCHANGED <<constructed, ringv, out, pret, cret, histv, ppc, plocal>>

\* ring_dequeue, lines 91-93: the memcpy completes; a slot written since it
\* began yields a mix of the two contents.
C_dequeue_fill ==
    /\ Usable /\ cpc = "deq_fill"
    /\ \E v \in (IF ReadSlot(buffer, clocal.tail) = {clocal.seen}
                  THEN {clocal.seen} ELSE AnyDesc) :
           out' = memcpy(v)
    /\ cpc' = "deq_publish"
    /\ UNCHANGED <<constructed, ringv, pret, cret, histv, oob, ppc, plocal,
                   clocal>>

\* ring_dequeue, lines 95-96: the store to tail and the return.
C_dequeue_publish ==
    /\ Usable /\ cpc = "deq_publish"
    /\ tail' = NextIndex(clocal.tail, 1, mask)
    /\ returned' = Append(returned, out)
    /\ cret' = [NoRet EXCEPT !.op = "dequeue", !.ok = TRUE, !.n = 1]
    /\ cpc' = "idle" /\ clocal' = CIdle
    /\ UNCHANGED <<constructed, buffer, head, mask, size, out, pret,
                   accepted, oob, ppc, plocal>>

\* ring_peek, lines 102-107, between two dequeues of the consumer.
C_peek ==
    /\ cpc = "idle"
    /\ ring_peek

\* The ring is built before the two sides start; the interleavings are
\* explored for the sizes 0 .. MaxSize.
NextConc ==
    \/ \E sz \in 0 .. MaxSize : ring_init(sz)
    \/ \E d \in Descs : P_enqueue_call(d)
    \/ P_enqueue_copy
    \/ P_enqueue_fill
    \/ P_enqueue_publish
    \/ \E ds \in BulkInputs : P_bulk_call(ds)
    \/ P_bulk_copy
    \/ P_bulk_fill
    \/ P_bulk_publish
    \/ C_dequeue_call
    \/ C_dequeue_copy
    \/ C_dequeue_fill
    \/ C_dequeue_publish
    \/ C_peek

SpecConc == Init /\ [][NextConc]_vars

\* The steps of each side.
ProducerStep ==
    \/ \E d \in Descs : P_enqueue_call(d)
    \/ P_enqueue_copy
    \/ P_enqueue_fill
    \/ P_enqueue_publish
    \/ \E ds \in BulkInputs : P_bulk_call(ds)
    \/ P_bulk_copy
    \/ P_bulk_fill
    \/ P_bulk_publish

\* The steps of a call under way.
ProducerBody ==
    \/ P_enqueue_copy
    \/ P_enqueue_fill
    \/ P_enqueue_publish
    \/ P_bulk_copy
    \/ P_bulk_fill
    \/ P_bulk_publish

ConsumerBody ==
    \/ C_dequeue_copy
    \/ C_dequeue_fill
    \/ C_dequeue_publish

ConsumerStep ==
    \/ C_dequeue_call
    \/ C_dequeue_copy
    \/ C_dequeue_fill
    \/ C_dequeue_publish
    \/ C_peek

\* ------------------------------------------------------------ properties
\* A ring as the data model has it: built, with a power-of-two capacity.
ValidRing == constructed /\ IsPow2(size)

\* Descriptors accepted and not yet returned.
Held == Len(accepted) - Len(returned)

IsPrefix(s, t) == Len(s) <= Len(t) /\ SubSeq(t, 1, Len(s)) = s

Min(a, b) == IF a < b THEN a ELSE b

\* The slots from tail up to head, oldest first.
RingContents ==
    [k \in 1 .. And32(head - tail, mask) |->
        buffer[And32(tail + k - 1, mask)]]

Pending == SubSeq(accepted, Len(returned) + 1, Len(accepted))

\* C1 - FIFO order: on a ring of power-of-two capacity the descriptors
\* returned by the successful dequeues are, in order, the first of the
\* descriptors the enqueues accepted, and the slots from tail to head hold
\* the remaining ones in the order they were enqueued.
C1_FifoOrder ==
    ValidRing =>
        /\ IsPrefix(returned, accepted)
        /\ RingContents = Pending

C1_Witness ==
    /\ ValidRing /\ size = 4
    /\ Len(returned) >= 4
    /\ returned[1] # returned[2]
    /\ cret.op = "dequeue" /\ cret.ok
    /\ tail = 0

\* C2 - capacity bound: a ring of power-of-two capacity C never holds more
\* than C-1 descriptors, and while nothing has been dequeued an enqueue
\* returns true only up to the (C-1)-th descriptor and returns false only
\* when C-1 descriptors are held, that is as the C-th.
C2_CapacityBound ==
    ValidRing =>
        /\ Held <= size - 1
        /\ And32(head - tail, mask) <= size - 1
        /\ (returned = <<>> /\ pret.op = "enqueue") =>
               IF pret.ok THEN Len(accepted) <= size - 1
                          ELSE Len(accepted) = size - 1

C2_Witness ==
    /\ ValidRing /\ size = 4
    /\ returned = <<>>
    /\ Len(accepted) = 3
    /\ pret.op = "enqueue" /\ ~pret.ok

\* C3 - publish ordering: with the producer and the consumer interleaved
\* access by access on a ring of power-of-two capacity, the descriptors the
\* dequeues have returned are at every moment the first of the descriptors
\* the producer's calls accepted; the slot the consumer is about to copy or
\* is copying holds a completely written descriptor, the next of that
\* order, and so does the copy it then holds.
C3_PublishOrdering ==
    ValidRing =>
        /\ IsPrefix(returned, accepted)
        /\ cpc \in {"deq_copy", "deq_fill"} =>
               /\ Len(returned) < Len(accepted)
               /\ InBounds(buffer, clocal.tail)
               /\ buffer[clocal.tail] \in Descs
               /\ buffer[clocal.tail] = accepted[Len(returned) + 1]
        /\ cpc = "deq_publish" =>
               /\ Len(returned) < Len(accepted)
               /\ out = accepted[Len(returned) + 1]

C3_Witness ==
    /\ ValidRing /\ size = 4
    /\ cpc = "deq_fill"
    /\ ppc \in {"enq_fill", "bulk_fill"}
    /\ Len(returned) >= 2
    /\ plocal.head < clocal.tail
    /\ buffer[And32(plocal.head + plocal.i, mask)] = Garbage

\* C4 - an enqueue on a full ring (C-1 descriptors held, C a power of two)
\* returns false and leaves head, tail, mask, size and every slot as they
\* were.
C4_FullEnqueueNoMutation ==
    [][\A d \in Descs :
        (ValidRing /\ Held = size - 1 /\ ring_enqueue(d)) =>
            /\ pret'.op = "enqueue" /\ ~pret'.ok
            /\ UNCHANGED <<ringv, histv>>]_vars

C4_Witness ==
    /\ ValidRing /\ size = 2
    /\ Held = 1
    /\ Len(returned) >= 1
    /\ pret.op = "enqueue" /\ ~pret.ok

\* C5 - a dequeue on an empty ring (head = tail) returns false and leaves
\* head, tail, every slot and the caller's output descriptor as they were.
C5_EmptyDequeueNoMutation ==
    [][(constructed /\ head = tail /\ ring_dequeue) =>
            /\ cret'.op = "dequeue" /\ ~cret'.ok
            /\ UNCHANGED <<ringv, histv, out>>]_vars

C5_Witness ==
    /\ constructed /\ head = tail
    /\ cret.op = "dequeue" /\ ~cret.ok
    /\ out \in Descs

\* C6 - field fidelity: on a ring of power-of-two capacity the descriptor a
\* successful dequeue hands to its caller equals, field by field, the
\* descriptor that was enqueued at the same position of the order.
C6_FieldFidelity ==
    (ValidRing /\ cret.op = "dequeue" /\ cret.ok) =>
        /\ Len(returned) <= Len(accepted)
        /\ \A f \in DescFields : out[f] = accepted[Len(returned)][f]

C6_Witness ==
    /\ ValidRing
    /\ cret.op = "dequeue" /\ cret.ok
    /\ out = DescRx
    /\ Len(returned) = 2

\* C7 - bulk partial acceptance: on a ring of power-of-two capacity
\* enqueue_bulk returns n, the smaller of the item count and the free space
\* at the call; the first n items are appended behind the held descriptors
\* in order, the free space shrinks by n, and the caller's array, the
\* suffix not accepted included, is as it was.
C7_BulkPartialAcceptance ==
    [][\A ds \in BulkInputs :
        (ValidRing /\ ring_enqueue_bulk(ds)) =>
            LET n == Min(Len(ds), size - 1 - Held)
            IN  /\ n = Min(Len(ds), ring_space(size, head, tail, mask))
                /\ pret'.op = "enqueue_bulk" /\ pret'.n = n
                /\ accepted' = accepted \o SubSeq(ds, 1, n)
                /\ RingContents' = RingContents \o SubSeq(ds, 1, n)
                /\ ring_space(size', head', tail', mask')
                       = ring_space(size, head, tail, mask) - n
                /\ pret'.descs = ds
                /\ UNCHANGED <<tail, returned>>]_vars

C7_Witness ==
    /\ ValidRing /\ size = 4
    /\ pret.op = "enqueue_bulk"
    /\ pret.n = 2 /\ Len(pret.descs) = 3
    /\ Held = 3
    /\ head < tail

\* C8 - space accounting: on a ring of power-of-two capacity C with k
\* descriptors accepted and j returned, space() is C - 1 - (k - j), is_empty
\* is true exactly when k = j and is_full exactly when k - j = C - 1, also
\* when the stored head is below the stored tail.
C8_SpaceAccounting ==
    ValidRing =>
        /\ 0 <= Held /\ Held <= size - 1
        /\ ring_space(size, head, tail, mask) = size - 1 - Held
        /\ ring_empty(head, tail) <=> Held = 0
        /\ ring_full(head, tail, mask) <=> Held = size - 1

C8_Witness ==
    /\ ValidRing /\ size = 4
    /\ head < tail
    /\ Held = 2
    /\ ring_space(size, head, tail, mask) = 1

\* C9 - config validation: a ring exists only with a power-of-two capacity;
\* init with zero or another capacity produces no ring state.
C9_ConfigValidation == constructed => IsPow2(size)

\* C10 - successful construction: init with a power-of-two capacity C gives
\* head = 0, tail = 0, mask = C - 1, an empty ring that is not full when
\* C >= 2, and space() = C - 1.
C10_Construction ==
    [][\A sz \in Sizes :
        (IsPow2(sz) /\ ring_init(sz)) =>
            /\ constructed' /\ size' = sz
            /\ head' = 0 /\ tail' = 0 /\ mask' = sz - 1
            /\ DOMAIN buffer' = 0 .. sz - 1
            /\ ring_empty(head', tail')
            /\ sz >= 2 => ~ring_full(head', tail', mask')
            /\ ring_space(size', head', tail', mask') = sz - 1]_vars

C10_Witness ==
    /\ constructed /\ size = RING_SIZE
    /\ accepted = <<>> /\ pret.op = "none" /\ cret.op = "none"
    /\ ring_space(size, head, tail, mask) = 255

\* C11 - peek: on a ring of power-of-two capacity that holds a descriptor,
\* peek returns the address of the slot at tail, which holds the oldest
\* descriptor not yet returned (the one the next dequeue returns); on an
\* empty ring it returns NULL; either way head, tail, mask, size, every
\* slot, the histories and the caller's descriptor stay as they were.
C11_Peek ==
    [][(ValidRing /\ ring_peek) =>
            /\ cret'.op = "peek"
            /\ IF Held = 0
               THEN ~cret'.ok /\ cret'.ptr = NULL
               ELSE /\ cret'.ok /\ cret'.ptr = tail
                    /\ buffer[cret'.ptr] = accepted[Len(returned) + 1]
            /\ ring_space(size', head', tail', mask')
                   = ring_space(size, head, tail, mask)
            /\ UNCHANGED <<ringv, histv, out>>]_vars

C11_Witness ==
    /\ ValidRing /\ size = 4
    /\ cret.op = "peek" /\ cret.ok
    /\ cret.ptr = tail /\ tail = 3
    /\ Held = 2
    /\ buffer[cret.ptr] # buffer[head - 1]

\* C12 - full is not sticky: on a ring of power-of-two capacity C >= 2 that
\* holds C-1 descriptors, is_full is true and a dequeue succeeds, returns
\* the oldest descriptor and leaves the ring not full; an enqueue on a ring
\* that holds fewer than C-1 succeeds and puts its descriptor behind the
\* held ones, also when the slot it takes was used before; each successful
\* dequeue returns the oldest held descriptor, and a dequeue on a ring that
\* holds none returns false.
C12_FullNotSticky ==
    [][ValidRing =>
        /\ (Held = size - 1 /\ size >= 2 /\ ring_dequeue) =>
               /\ ring_full(head, tail, mask)
               /\ cret'.ok /\ out' = accepted[Len(returned) + 1]
               /\ ~ring_full(head', tail', mask')
        /\ \A d \in Descs :
               (Held < size - 1 /\ ring_enqueue(d)) =>
                   /\ pret'.ok
                   /\ accepted' = Append(accepted, d)
                   /\ RingContents' = Append(RingContents, d)
        /\ (Held > 0 /\ ring_dequeue) =>
               /\ cret'.ok
               /\ returned' = Append(returned, accepted[Len(returned) + 1])
               /\ RingContents = <<out'>> \o RingContents'
        /\ (Held = 0 /\ ring_dequeue) => ~cret'.ok]_vars

\* The end of the capacity-4 scenario: four descriptors through a ring of
\* three usable slots, all returned in order, the last dequeue refused.
C12_Witness ==
    /\ ValidRing /\ size = 4
    /\ Len(accepted) = 4 /\ returned = accepted
    /\ accepted[3] # accepted[4]
    /\ head = 0 /\ tail = 0
    /\ cret.op = "dequeue" /\ ~cret.ok
    /\ pret.op = "enqueue" /\ pret.ok

\* The steps a call under way still has to take before it returns.
ProducerRank ==
    CASE ppc = "idle"         -> 0
      [] ppc = "enq_copy"     -> 3
      [] ppc = "enq_fill"     -> 2
      [] ppc = "enq_publish"  -> 1
      [] ppc = "bulk_copy"    -> 2 * (plocal.n - plocal.i) + 1
      [] ppc = "bulk_fill"    -> 2 * (plocal.n - plocal.i)
      [] ppc = "bulk_publish" -> 1
      [] OTHER                -> -1

ConsumerRank ==
    CASE cpc = "idle"         -> 0
      [] cpc = "deq_copy"     -> 3
      [] cpc = "deq_fill"     -> 2
      [] cpc = "deq_publish"  -> 1
      [] OTHER                -> -1

\* C13 - non-blocking: on a ring of power-of-two capacity a call under way
\* can always take its next step, whatever the other side's position; the
\* steps it still has to take are at most 2 * MaxBulk + 1 for the producer
\* and 3 for the consumer, every step of a call under way lowers that number
\* by one, a call returns when it reaches zero, and no step of the other
\* side changes it.
C13_NonBlocking ==
    /\ [](ValidRing =>
            /\ ProducerRank \in 0 .. 2 * MaxBulk + 1
            /\ ConsumerRank \in 0 .. 3
            /\ ppc # "idle" => ENABLED ProducerBody
            /\ cpc # "idle" => ENABLED ConsumerBody)
    /\ [][ValidRing =>
            /\ (ppc # "idle" /\ <<ppc, plocal>>' # <<ppc, plocal>>) =>
                   ProducerRank' = ProducerRank - 1
            /\ (cpc # "idle" /\ <<cpc, clocal>>' # <<cpc, clocal>>) =>
                   ConsumerRank' = ConsumerRank - 1
            /\ ProducerBody => UNCHANGED <<cpc, clocal>>
            /\ ConsumerBody => UNCHANGED <<ppc, plocal>>]_vars

C13_Witness ==
    /\ ValidRing /\ size = 4
    /\ ppc = "bulk_copy" /\ plocal.n = 2 /\ plocal.i = 1
    /\ cpc = "deq_fill"
    /\ ProducerRank = 3 /\ ConsumerRank = 2

\* The slot the producer's memcpy is writing, the slot the consumer's memcpy
\* is reading.
ProducerWrites == ppc \in {"enq_fill", "bulk_fill"}
ProducerSlot == BulkIndex(plocal.head, plocal.i, mask)
ConsumerReads == cpc \in {"deq_copy", "deq_fill"}

\* Slot i lies in the occupied range from tail up to head.
Occupied(i) == And32(i - tail, mask) < And32(head - tail, mask)

\* C14 - no overwrite of unconsumed slots: on a ring of power-of-two
\* capacity, in every interleaving, the slot the producer is about to write
\* or is writing lies outside the occupied range from tail to head; while
\* the consumer has not finished with its slot the stored tail is still
\* that slot's index, the slot is occupied and still holds the descriptor
\* due next, so the producer is never writing it.
C14_NoOverwrite ==
    ValidRing =>
        /\ ppc \in {"enq_copy", "enq_fill", "bulk_copy", "bulk_fill"} =>
               /\ InBounds(buffer, ProducerSlot)
               /\ ~Occupied(ProducerSlot)
        /\ cpc \in {"deq_copy", "deq_fill", "deq_publish"} =>
               /\ tail = clocal.tail
               /\ Occupied(clocal.tail)
               /\ buffer[clocal.tail] = accepted[Len(returned) + 1]
        /\ (ProducerWrites /\ ConsumerReads) => ProducerSlot # clocal.tail
        /\ \A i \in DOMAIN buffer : Occupied(i) => buffer[i] \in Descs

C14_Witness ==
    /\ ValidRing /\ size = 4
    /\ ppc = "enq_fill" /\ cpc = "deq_fill"
    /\ Len(accepted) = 4
    /\ ProducerSlot = 0 /\ clocal.tail = 2
    /\ buffer[0] = Garbage

InBulk == ppc \in {"bulk_copy", "bulk_fill", "bulk_publish"}

\* C15 - bulk publish is a single step: on a ring of power-of-two capacity,
\* from the start of an enqueue_bulk that accepts n items to its return, the
\* stored head is the value it had at the call; the one step that changes
\* it moves it n positions on (modulo the capacity), and at that step the n
\* slots from the old head hold the first n items in order.
C15_BulkSinglePublish ==
    /\ [](ValidRing /\ InBulk => head = plocal.head)
    /\ [][(ValidRing /\ InBulk) =>
            \/ head' = head
            \/ /\ head' = (head + plocal.n) % size
               /\ ppc' = "idle"
               /\ pret'.op = "enqueue_bulk" /\ pret'.n = plocal.n
               /\ \A i \in 0 .. plocal.n - 1 :
                      /\ buffer[(head + i) % size] = plocal.descs[i + 1]
                      /\ buffer'[(head + i) % size] = plocal.descs[i + 1]]_vars

\* The consumer's last dequeue found the ring empty; the three items of a
\* batch are in their slots, across the end of the storage, and the head is
\* not yet stored.
C15_Witness ==
    /\ ValidRing /\ size = 4
    /\ ppc = "bulk_publish" /\ plocal.n = 3
    /\ head = tail /\ head = 2
    /\ cret.op = "dequeue" /\ ~cret.ok
    /\ buffer[0] = plocal.descs[3]

\* C16 - index ownership: a call of enqueue or enqueue_bulk leaves tail as
\* it was, a call of dequeue leaves head and every slot as they were, a call
\* of peek leaves both indices and every slot as they were, and once the
\* ring is built no call changes size, mask or the number of slots.  (The
\* queries is_full, is_empty and space are functions of head, tail, mask and
\* size and assign nothing.)
C16_IndexOwnership ==
    [][/\ (\A d \in Descs : ring_enqueue(d) => tail' = tail)
       /\ (\A ds \in BulkInputs : ring_enqueue_bulk(ds) => tail' = tail)
       /\ ring_dequeue => (head' = head /\ buffer' = buffer)
       /\ ring_peek => (head' = head /\ tail' = tail /\ buffer' = buffer)
       /\ constructed =>
              /\ size' = size /\ mask' = mask
              /\ DOMAIN buffer' = DOMAIN buffer]_vars

\* A dequeue has emptied the ring away from slot 0.
C16_Witness ==
    /\ ValidRing /\ size = 4
    /\ cret.op = "dequeue" /\ cret.ok
    /\ head = tail /\ head = 3
    /\ Len(returned) = 3

\* C17 as stated - head and tail are free-running counters: a successful
\* enqueue stores head + 1, an accepting enqueue_bulk stores head + n and a
\* successful dequeue stores tail + 1, none reduced modulo the capacity.
\* (Within the bounds no counter comes near 2^32, so + is exact.)
C17_FreeRunning ==
    [][ValidRing =>
          /\ ((\E d \in Descs : ring_enqueue(d)) /\ pret'.ok) =>
                 head' = head + 1
          /\ ((\E ds \in BulkInputs : ring_enqueue_bulk(ds)) /\ pret'.n > 0) =>
                 head' = head + pret'.n
          /\ (ring_dequeue /\ cret'.ok) => tail' = tail + 1]_vars

\* C17, amended - head and tail are slot indices kept in 0 .. C-1: the slot
\* written or read is the one the stored index names, and a successful
\* enqueue stores (head + 1) mod C, an accepting enqueue_bulk stores
\* (head + n) mod C and a successful dequeue stores (tail + 1) mod C.
C17_MaskedIndices ==
    /\ [](ValidRing => head \in 0 .. size - 1 /\ tail \in 0 .. size - 1)
    /\ [][ValidRing =>
             /\ \A d \in Descs : (ring_enqueue(d) /\ pret'.ok) =>
                    /\ head' = (head + 1) % size
                    /\ buffer'[head] = d
             /\ ((\E ds \in BulkInputs : ring_enqueue_bulk(ds)) /\ pret'.n > 0) =>
                    head' = (head + pret'.n) % size
             /\ (ring_dequeue /\ cret'.ok) =>
                    /\ tail' = (tail + 1) % size
                    /\ out' = buffer[tail]]_vars

\* The fourth enqueue into a ring of four slots has brought head back to 0.
C17_Witness ==
    /\ ValidRing /\ size = 4
    /\ pret.op = "enqueue" /\ pret.ok
    /\ Len(accepted) = 4 /\ Len(returned) = 2
    /\ head = 0 /\ tail = 2

\* C18 - enqueue_bulk with nothing to accept is a no-op: a call with an
\* empty batch, or made when space() is 0, returns 0 and leaves head, tail,
\* every slot and the record of accepted items as they were.  space() is 0
\* exactly when the ring holds capacity-1 descriptors.
C18_BulkNoOp ==
    /\ [](ValidRing =>
             (ring_space(size, head, tail, mask) = 0 <=> Held = size - 1))
    /\ [][\A ds \in BulkInputs :
             (/\ ring_enqueue_bulk(ds)
              /\ Len(ds) = 0 \/ ring_space(size, head, tail, mask) = 0) =>
                 /\ pret'.op = "enqueue_bulk" /\ pret'.n = 0
                 /\ UNCHANGED <<ringv, histv>>]_vars

\* A batch of two or more was offered to a full ring and none was taken.
C18_Witness ==
    /\ ValidRing /\ size = 4
    /\ pret.op = "enqueue_bulk" /\ pret.n = 0 /\ Len(pret.descs) >= 2
    /\ Held = size - 1
    /\ ring_space(size, head, tail, mask) = 0

\* C19 - slot-index bounds: in a ring built with a power-of-two capacity C
\* the storage has the slots 0 .. C-1, head and tail (the indices enqueue,
\* dequeue and peek use) lie in 0 .. C-1, every index (head + i) & mask that
\* enqueue_bulk can use lies in 0 .. C-1, the slot peek points at is one of
\* them, and no access has fallen outside the storage.
C19_SlotIndexBounds ==
    ValidRing =>
        /\ DOMAIN buffer = 0 .. size - 1
        /\ head \in 0 .. size - 1
        /\ tail \in 0 .. size - 1
        /\ \A i \in 0 .. size - 1 : InBounds(buffer, BulkIndex(head, i, mask))
        /\ (cret.op = "peek" /\ cret.ok) => InBounds(buffer, cret.ptr)
        /\ ~oob

\* A batch of three has been written across the end of a four-slot storage.
C19_Witness ==
    /\ ValidRing /\ size = 4
    /\ pret.op = "enqueue_bulk" /\ pret.n = 3
    /\ Len(accepted) = 5 /\ Len(returned) = 2
    /\ head = 1 /\ tail = 2
    /\ buffer[0] = accepted[5]
    /\ ~oob

InEnqueue == ppc \in {"enq_copy", "enq_fill", "enq_publish"}
InDequeue == cpc \in {"deq_copy", "deq_fill", "deq_publish"}

\* C20 - no spurious backpressure: on a ring of power-of-two capacity, with
\* the producer and the consumer interleaved step by step, the full check
\* answers true exactly when capacity-1 descriptors are held and the empty
\* check exactly when none is, so an enqueue that returns false read the
\* indices at an instant the ring held capacity-1 descriptors and a dequeue
\* that returns false at an instant it held none.  What a call has seen
\* stays on the safe side while the other side moves on: an enqueue under
\* way still has a free slot, a batch under way takes no more than the
\* free slots, a dequeue under way still has a descriptor to take.
C20_NoSpuriousBackpressure ==
    /\ [](ValidRing =>
             /\ ring_full(head, tail, mask) <=> Held = size - 1
             /\ ring_empty(head, tail) <=> Held = 0
             /\ InEnqueue => Held < size - 1
             /\ InBulk => Held + plocal.n <= size - 1
             /\ InDequeue => Held >= 1)
    /\ [][ValidRing =>
             /\ ((\E d \in Descs : P_enqueue_call(d)) /\ ppc' = "idle") =>
                    /\ pret'.op = "enqueue" /\ ~pret'.ok
                    /\ Held = size - 1
             /\ (C_dequeue_call /\ cpc' = "idle") =>
                    /\ cret'.op = "dequeue" /\ ~cret'.ok
                    /\ Held = 0]_vars

\* The producer was turned away from a full ring while the consumer was one
\* step from freeing a slot.
C20_Witness ==
    /\ ValidRing /\ size = 4
    /\ ppc = "idle" /\ pret.op = "enqueue" /\ ~pret.ok
    /\ cpc = "deq_publish"
    /\ Held = size - 1
    /\ head = 0 /\ tail = 1

====
